---- MODULE Spec2Model ----
(***************************************************************************)
(* Model of src/app/api/btc-price/route.ts: the three source fetchers,     *)
(* buildDayMap, lookupRP and the GET route handler that merges the         *)
(* realized-price series, the historical price series and the live tick.   *)
(*                                                                         *)
(* Units.  TLC integers are 32 bits wide and epoch milliseconds are not,   *)
(* so the clock is scaled: one unit of the historical feed's x (a second   *)
(* in the program) stands for one hour, and a millisecond timestamp is     *)
(* still x * 1000.  A day is therefore 24 * 1000 and twelve hours are      *)
(* 12 * 1000 of the millisecond unit; 2018-01-01T00:00Z is day 17532      *)
(* after the epoch.  All comparisons of the program are kept as written.   *)
(*                                                                         *)
(* Numbers.  A JavaScript number carried by a feed is a fixed-point value  *)
(* counted in tenths (215 is 21.5), multiplied exactly; Math.round is      *)
(* floor(x + 0.5).  Record fields produced by Math.round are whole         *)
(* numbers.  Feed values are non-negative numbers; a malformed array       *)
(* element (a JSON null in place of a point) has ok = FALSE and makes the  *)
(* code that reads it throw.                                               *)
(*                                                                         *)
(* null / undefined is Null, a present value x is Some(x).  A Map is the   *)
(* sequence of its entries in insertion order.                             *)
(***************************************************************************)
EXTENDS Integers, Sequences, FiniteSets, TLC

VARIABLES
    upstream,           \* what each of the five endpoints answers
    settled,            \* the fetches of Promise.all that have settled
    realizedPriceRaw, sthRPRaw, lthRPRaw, historicalPrices, livePrice,
    pc,                 \* position of the handler
    rpMap, rpKeys, sthMap, sthKeys, lthMap, lthKeys,
    filtered, sampled, lastHistorical,
    chartData,
    latestRP, latestRPDate, latestSTH, latestLTH, currentPrice,
    now,                \* the value Date.now() returns in the live-tick step
    response,           \* the NextResponse the handler returned
    probe,              \* the last lookupRP call made on its own: [t, r]
    peer                \* a second invocation of GET in the same process:
                        \* what its fetches observe, and its locals

vars == << upstream, settled, realizedPriceRaw, sthRPRaw, lthRPRaw,
           historicalPrices, livePrice, pc, rpMap, rpKeys, sthMap, sthKeys,
           lthMap, lthKeys, filtered, sampled, lastHistorical, chartData,
           latestRP, latestRPDate, latestSTH, latestLTH, currentPrice, now,
           response, probe, peer >>

----------------------------------------------------------------------------
(* Values *)

Null == [some |-> FALSE]
Some(x) == [some |-> TRUE, v |-> x]

\* a ?? b
orElse(o, d) == IF o.some THEN o.v ELSE d

\* Math.trunc in place of Math.round
roundTrunc(x) == x \div 10

\* Math.round of a number in tenths: floor(x + 0.5)
round(x) == (x + 5) \div 10

\* Math.round(x * k) for k = m / 100 and x in tenths
roundMul(x, m) == (x * m + 500) \div 1000

\* a whole number as a number in tenths
num(n) == n * 10

secToMs == 1000
dayMs == 24 * secToMs
halfDayMs == 12 * secToMs
startDay == 17532
startDate == startDay * 24
minPoints == 100
stride == 4

\* new Date(ts); setUTCHours(0, 0, 0, 0); getTime()
dayOf(ts) == ts - (ts % dayMs)

----------------------------------------------------------------------------
(* Map<number, number>, entries in insertion order *)

mapIndex(map, k) ==
    LET S == {i \in DOMAIN map : map[i].k = k}
    IN  IF S = {} THEN 0 ELSE CHOOSE i \in S : TRUE

mapGet(map, k) ==
    LET i == mapIndex(map, k)
    IN  IF i = 0 THEN Null ELSE Some(map[i].v)

\* a set that leaves the entry of a key already there as it is
mapSetKeepFirst(map, k, val) ==
    LET i == mapIndex(map, k)
    IN  IF i = 0 THEN Append(map, [k |-> k, v |-> val])
        ELSE map

mapSet(map, k, val) ==
    LET i == mapIndex(map, k)
    IN  IF i = 0 THEN Append(map, [k |-> k, v |-> val])
        ELSE [map EXCEPT ![i] = [k |-> k, v |-> val]]

mapKeys(map) == [i \in DOMAIN map |-> map[i].k]

\* the loop of buildDayMap over raw[lo..hi], in input order.  The range is
\* split in halves, and the map after the left half is a value of its own
\* before the right half is entered, only to keep TLC's evaluation shallow.
RECURSIVE buildDayMapRange(_, _, _, _)
buildDayMapRange(raw, lo, hi, map) ==
    IF lo > hi THEN map
    ELSE IF lo = hi THEN mapSet(map, dayOf(raw[lo].ts), raw[lo].val)
    ELSE LET mid == (lo + hi) \div 2
         IN  CHOOSE done \in { buildDayMapRange(raw, mid + 1, hi, left) :
                                 left \in { buildDayMapRange(raw, lo, mid, map) } } :
                 TRUE

\* buildDayMap: one entry per UTC day, a later point of the day overwrites
buildDayMap(raw) == buildDayMapRange(raw, 1, Len(raw), << >>)

\* destructuring [ts, val] of a null element throws
hasBadPoint(raw) == \E i \in DOMAIN raw : ~raw[i].ok

\* keys.sort((a, b) => a - b), as a quicksort around the middle element
RECURSIVE sortAscending(_)
sortAscending(keys) ==
    IF Len(keys) <= 1 THEN keys
    ELSE LET pivot == keys[(Len(keys) + 1) \div 2]
             lower(x) == x - pivot < 0
             same(x) == x - pivot = 0
             upper(x) == x - pivot > 0
         IN  sortAscending(SelectSeq(keys, lower))
                \o SelectSeq(keys, same)
                \o sortAscending(SelectSeq(keys, upper))

\* [...map.keys()].sort((a, b) => a - b)
sortedKeysOf(map) == sortAscending(mapKeys(map))

\* bsearch that moves to the lower half after a key <= dayTs
RECURSIVE bsearchMutant(_, _, _, _, _)
bsearchMutant(sortedKeys, dayTs, lo, hi, best) ==
    IF lo > hi THEN best
    ELSE LET mid == (lo + hi) \div 2
         IN  IF sortedKeys[mid + 1] <= dayTs
             THEN bsearchMutant(sortedKeys, dayTs, lo, mid - 1, mid)
             ELSE bsearchMutant(sortedKeys, dayTs, mid + 1, hi, best)

\* the binary search of lookupRP; lo, hi, best are 0-based as in the source
RECURSIVE bsearch(_, _, _, _, _)
bsearch(sortedKeys, dayTs, lo, hi, best) ==
    IF lo > hi THEN best
    ELSE LET mid == (lo + hi) \div 2
         IN  IF sortedKeys[mid + 1] <= dayTs
             THEN bsearch(sortedKeys, dayTs, mid + 1, hi, mid)
             ELSE bsearch(sortedKeys, dayTs, lo, mid - 1, best)

\* lookupRP without the search for an earlier day
lookupRPExact(dayMap, sortedKeys, timestampMs) ==
    mapGet(dayMap, dayOf(timestampMs))

lookupRP(dayMap, sortedKeys, timestampMs) ==
    LET dayTs == dayOf(timestampMs)
        exact == mapGet(dayMap, dayTs)
        best  == bsearch(sortedKeys, dayTs, 0, Len(sortedKeys) - 1, -1)
    IN  IF exact.some THEN exact
        ELSE IF best >= 0 THEN mapGet(dayMap, sortedKeys[best + 1])
        ELSE Null

----------------------------------------------------------------------------
(* Source fetchers: what an endpoint answers, and what the fetcher returns.
   kind: "error" (fetch rejects: transport failure), "timeout" (the
   AbortSignal fires), "status" (res.ok is false), "invalid" (res.json()
   rejects), "json" (a parsed body). *)

fetchBGeometricsMetric(r) ==
    IF r.kind # "json" THEN Null
    ELSE IF ~r.isArray \/ Len(r.arr) = 0 THEN Null
    ELSE Some(r.arr)

fetchBlockchainInfoPrices(r) ==
    IF r.kind # "json" THEN Null
    ELSE IF r.status = "ok" /\ r.isArray THEN Some(r.values)
    ELSE Null

\* json?.quotes?.USD?.price ?? null
fetchLivePrice(r) ==
    IF r.kind # "json" THEN Null ELSE r.price

----------------------------------------------------------------------------
(* The steps of GET as functions of the handler's locals *)

\* a value used as a condition: null, undefined and 0 are falsy
truthy(o) == o.some /\ o.v # 0

\* the window with the first instant of 2018 left out
keepPointStrict(d) == d.x > startDate /\ d.y > 0

\* d.x >= startDate && d.y > 0
keepPoint(d) == d.x >= startDate /\ d.y > 0

\* reading d.x of a null element throws
hasBadPrice(h) == \E i \in DOMAIN h : ~h[i].ok

filterHistorical(h) == SelectSeq(h, keepPoint)

\* filtered.filter((_, i) => i % 4 === 0), i counted from 0
strideSample(f) ==
    [j \in 1..((Len(f) + stride - 1) \div stride) |-> f[(j - 1) * stride + 1]]

lastOf(s) == IF Len(s) = 0 THEN Null ELSE Some(s[Len(s)])

\* the stride alone, without the forced last point
resampleNoAppend(f) == strideSample(f)

resample(f) ==
    LET s == strideSample(f)
    IN  IF Len(s) > 0 /\ s[Len(s)].x # f[Len(f)].x
        THEN Append(s, f[Len(f)])
        ELSE s

roundOpt(o) == IF truthy(o) THEN Some(round(o.v)) ELSE Null

\* makeRecord with the 1.25 and 1.7 multipliers exchanged
makeRecordSwapped(date, price, rp, sthRP, lthRP) ==
    [ date    |-> date,
      price   |-> round(price),
      rp      |-> round(rp),
      rp_0_8  |-> roundMul(rp, 80),
      rp_1_25 |-> roundMul(rp, 170),
      rp_1_7  |-> roundMul(rp, 125),
      rp_2_4  |-> roundMul(rp, 240),
      rp_3_2  |-> roundMul(rp, 320),
      sth_rp  |-> roundOpt(sthRP),
      lth_rp  |-> roundOpt(lthRP) ]

makeRecord(date, price, rp, sthRP, lthRP) ==
    [ date    |-> date,
      price   |-> round(price),
      rp      |-> round(rp),
      rp_0_8  |-> roundMul(rp, 80),
      rp_1_25 |-> roundMul(rp, 125),
      rp_1_7  |-> roundMul(rp, 170),
      rp_2_4  |-> roundMul(rp, 240),
      rp_3_2  |-> roundMul(rp, 320),
      sth_rp  |-> roundOpt(sthRP),
      lth_rp  |-> roundOpt(lthRP) ]

\* the callback of sampled.map without the conversion to milliseconds
chartPointSeconds(d) ==
    LET tsMs  == d.x
        rp    == orElse(lookupRP(rpMap, rpKeys, tsMs), 0)
        sthRP == IF sthMap.some /\ sthKeys.some
                 THEN lookupRP(sthMap.v, sthKeys.v, tsMs) ELSE Null
        lthRP == IF lthMap.some /\ lthKeys.some
                 THEN lookupRP(lthMap.v, lthKeys.v, tsMs) ELSE Null
    IN  makeRecord(tsMs, d.y, rp, sthRP, lthRP)

\* the callback of sampled.map
chartPoint(d) ==
    LET tsMs  == d.x * secToMs
        rp    == orElse(lookupRP(rpMap, rpKeys, tsMs), 0)
        sthRP == IF sthMap.some /\ sthKeys.some
                 THEN lookupRP(sthMap.v, sthKeys.v, tsMs) ELSE Null
        lthRP == IF lthMap.some /\ lthKeys.some
                 THEN lookupRP(lthMap.v, lthKeys.v, tsMs) ELSE Null
    IN  makeRecord(tsMs, d.y, rp, sthRP, lthRP)

\* a rounded latest value (or null) as the number the live point reads
latestNum(o) == IF o.some THEN Some(num(o.v)) ELSE Null

livePointAt(t) ==
    LET rp    == orElse(lookupRP(rpMap, rpKeys, t), num(latestRP))
        sthRP == IF sthMap.some /\ sthKeys.some
                 THEN lookupRP(sthMap.v, sthKeys.v, t) ELSE latestNum(latestSTH)
        lthRP == IF lthMap.some /\ lthKeys.some
                 THEN lookupRP(lthMap.v, lthKeys.v, t) ELSE latestNum(latestLTH)
    IN  makeRecord(t, livePrice.v, rp, sthRP, lthRP)

\* reconcile that appends from exactly twelve hours on
reconcileAtTwelve(data, t, livePoint) ==
    IF t - data[Len(data)].date >= halfDayMs
    THEN Append(data, livePoint)
    ELSE [data EXCEPT ![Len(data)] = livePoint]

\* reconcile that never overwrites
reconcileAlwaysAppend(data, t, livePoint) == Append(data, livePoint)

\* append the live point, or overwrite the last record with it
reconcile(data, t, livePoint) ==
    IF t - data[Len(data)].date > halfDayMs
    THEN Append(data, livePoint)
    ELSE [data EXCEPT ![Len(data)] = livePoint]

latestOf(raw) ==
    IF raw.some /\ Len(raw.v) > 0 THEN Some(round(raw.v[Len(raw.v)].val)) ELSE Null

\* the precedence written with || in place of ??
resolvePriceTruthy(live, lastHist, data) ==
    IF truthy(live) THEN live.v
    ELSE IF lastHist.some THEN lastHist.v.y
    ELSE IF Len(data) > 0 THEN num(data[Len(data)].price)
    ELSE 0

\* livePrice ?? lastHistorical?.y ?? chartData[chartData.length - 1]?.price ?? 0
resolvePrice(live, lastHist, data) ==
    IF live.some THEN live.v
    ELSE IF lastHist.some THEN lastHist.v.y
    ELSE IF Len(data) > 0 THEN num(data[Len(data)].price)
    ELSE 0

NoResponse == [status |-> 0, body |-> << >>]

errorResponse(msg, code) == [status |-> code, body |-> [error |-> msg]]

\* the success response with the count taken before the live tick
successResponseStaleCount ==
    [ status |-> 200,
      body   |-> [ data         |-> chartData,
                   latestRP     |-> latestRP,
                   latestRPDate |-> latestRPDate,
                   latestSTH    |-> latestSTH,
                   latestLTH    |-> latestLTH,
                   latestPrice  |-> round(currentPrice),
                   dataPoints   |-> Len(sampled) ] ]

successResponse ==
    [ status |-> 200,
      body   |-> [ data         |-> chartData,
                   latestRP     |-> latestRP,
                   latestRPDate |-> latestRPDate,
                   latestSTH    |-> latestSTH,
                   latestLTH    |-> latestLTH,
                   latestPrice  |-> round(currentPrice),
                   dataPoints   |-> Len(chartData) ] ]

----------------------------------------------------------------------------
(* GET: the five fetches of Promise.all settle one by one, in any order *)

Feeds == {"rp", "sth", "lth", "hist", "live"}

FetchRealizedPrice ==
    /\ pc = "fetching" /\ "rp" \notin settled
    /\ settled' = settled \cup {"rp"}
    /\ realizedPriceRaw' = fetchBGeometricsMetric(upstream.rp)
    /\ UNCHANGED << upstream, peer, sthRPRaw, lthRPRaw, historicalPrices, livePrice,
                    pc, rpMap, rpKeys, sthMap, sthKeys, lthMap, lthKeys,
                    filtered, sampled, lastHistorical, chartData, latestRP,
                    latestRPDate, latestSTH, latestLTH, currentPrice, now,
                    response, probe >>

\* a fetcher without its try/catch: a failed request rejects Promise.all and
\* the handler's catch block answers while the other fetches are in flight
FetchSTHFailFast ==
    /\ pc = "fetching" /\ "sth" \notin settled
    /\ settled' = settled \cup {"sth"}
    /\ sthRPRaw' = fetchBGeometricsMetric(upstream.sth)
    /\ IF upstream.sth.kind = "json"
       THEN UNCHANGED << pc, response >>
       ELSE /\ pc' = "done"
            /\ response' = errorResponse("Internal server error fetching BTC data", 500)
    /\ UNCHANGED << upstream, peer, realizedPriceRaw, lthRPRaw, historicalPrices,
                    livePrice, rpMap, rpKeys, sthMap, sthKeys, lthMap,
                    lthKeys, filtered, sampled, lastHistorical, chartData,
                    latestRP, latestRPDate, latestSTH, latestLTH, currentPrice,
                    now, probe >>

FetchSTH ==
    /\ pc = "fetching" /\ "sth" \notin settled
    /\ settled' = settled \cup {"sth"}
    /\ sthRPRaw' = fetchBGeometricsMetric(upstream.sth)
    /\ UNCHANGED << upstream, peer, realizedPriceRaw, lthRPRaw, historicalPrices,
                    livePrice, pc, rpMap, rpKeys, sthMap, sthKeys, lthMap,
                    lthKeys, filtered, sampled, lastHistorical, chartData,
                    latestRP, latestRPDate, latestSTH, latestLTH, currentPrice,
                    now, response, probe >>

FetchLTH ==
    /\ pc = "fetching" /\ "lth" \notin settled
    /\ settled' = settled \cup {"lth"}
    /\ lthRPRaw' = fetchBGeometricsMetric(upstream.lth)
    /\ UNCHANGED << upstream, peer, realizedPriceRaw, sthRPRaw, historicalPrices,
                    livePrice, pc, rpMap, rpKeys, sthMap, sthKeys, lthMap,
                    lthKeys, filtered, sampled, lastHistorical, chartData,
                    latestRP, latestRPDate, latestSTH, latestLTH, currentPrice,
                    now, response, probe >>

FetchHistorical ==
    /\ pc = "fetching" /\ "hist" \notin settled
    /\ settled' = settled \cup {"hist"}
    /\ historicalPrices' = fetchBlockchainInfoPrices(upstream.hist)
    /\ UNCHANGED << upstream, peer, realizedPriceRaw, sthRPRaw, lthRPRaw, livePrice,
                    pc, rpMap, rpKeys, sthMap, sthKeys, lthMap, lthKeys,
                    filtered, sampled, lastHistorical, chartData, latestRP,
                    latestRPDate, latestSTH, latestLTH, currentPrice, now,
                    response, probe >>

\* the live price kept only when it arrives before the history does
FetchLiveRace ==
    /\ pc = "fetching" /\ "live" \notin settled
    /\ settled' = settled \cup {"live"}
    /\ livePrice' = IF "hist" \in settled THEN Null ELSE fetchLivePrice(upstream.live)
    /\ UNCHANGED << upstream, peer, realizedPriceRaw, sthRPRaw, lthRPRaw,
                    historicalPrices, pc, rpMap, rpKeys, sthMap, sthKeys,
                    lthMap, lthKeys, filtered, sampled, lastHistorical,
                    chartData, latestRP, latestRPDate, latestSTH, latestLTH,
                    currentPrice, now, response, probe >>

FetchLive ==
    /\ pc = "fetching" /\ "live" \notin settled
    /\ settled' = settled \cup {"live"}
    /\ livePrice' = fetchLivePrice(upstream.live)
    /\ UNCHANGED << upstream, peer, realizedPriceRaw, sthRPRaw, lthRPRaw,
                    historicalPrices, pc, rpMap, rpKeys, sthMap, sthKeys,
                    lthMap, lthKeys, filtered, sampled, lastHistorical,
                    chartData, latestRP, latestRPDate, latestSTH, latestLTH,
                    currentPrice, now, response, probe >>

\* !raw || raw.length < 100, with 99 points let through
tooSparseOffByOne(raw) == ~raw.some \/ Len(raw.v) < minPoints - 1

\* !raw || raw.length < 100
tooSparse(raw) == ~raw.some \/ Len(raw.v) < minPoints

\* the await of Promise.all returns, then the first gate
GatePrimary ==
    /\ pc = "fetching" /\ settled = Feeds
    /\ IF tooSparse(realizedPriceRaw)
       THEN /\ response' = errorResponse("Failed to fetch on-chain realized price data", 502)
            /\ pc' = "done"
       ELSE /\ pc' = "gateHistorical"
            /\ UNCHANGED response
    /\ UNCHANGED << upstream, peer, settled, realizedPriceRaw, sthRPRaw, lthRPRaw,
                    historicalPrices, livePrice, rpMap, rpKeys, sthMap,
                    sthKeys, lthMap, lthKeys, filtered, sampled,
                    lastHistorical, chartData, latestRP, latestRPDate,
                    latestSTH, latestLTH, currentPrice, now, probe >>

GateHistorical ==
    /\ pc = "gateHistorical"
    /\ IF tooSparse(historicalPrices)
       THEN /\ response' = errorResponse("Failed to fetch historical BTC price data", 502)
            /\ pc' = "done"
       ELSE /\ pc' = "buildMaps"
            /\ UNCHANGED response
    /\ UNCHANGED << upstream, peer, settled, realizedPriceRaw, sthRPRaw, lthRPRaw,
                    historicalPrices, livePrice, rpMap, rpKeys, sthMap,
                    sthKeys, lthMap, lthKeys, filtered, sampled,
                    lastHistorical, chartData, latestRP, latestRPDate,
                    latestSTH, latestLTH, currentPrice, now, probe >>

\* a catch block that sends the records built so far along with the error
internalErrorLeaky ==
    [ status |-> 500,
      body   |-> [ error |-> "Internal server error fetching BTC data",
                   data  |-> chartData ] ]

\* the catch block of GET
internalError == errorResponse("Internal server error fetching BTC data", 500)

\* buildDayMap called on a cohort series without the null check
cohortThrowsOnNull(raw) == ~raw.some \/ hasBadPoint(raw.v)

\* a cohort series is given to buildDayMap only when it is there
cohortThrows(raw) == raw.some /\ hasBadPoint(raw.v)

cohortMap(raw) ==
    IF raw.some /\ Len(raw.v) > 0 THEN Some(buildDayMap(raw.v)) ELSE Null

cohortKeys(map) ==
    IF map.some /\ Len(map.v) > 0 THEN Some(sortedKeysOf(map.v)) ELSE Null

BuildMaps ==
    /\ pc = "buildMaps"
    /\ IF \/ hasBadPoint(realizedPriceRaw.v)
          \/ cohortThrows(sthRPRaw)
          \/ cohortThrows(lthRPRaw)
       THEN /\ response' = internalError
            /\ pc' = "done"
            /\ UNCHANGED << rpMap, rpKeys, sthMap, sthKeys, lthMap, lthKeys >>
       ELSE /\ rpMap' = buildDayMap(realizedPriceRaw.v)
            /\ rpKeys' = sortedKeysOf(rpMap')
            /\ sthMap' = cohortMap(sthRPRaw)
            /\ sthKeys' = cohortKeys(sthMap')
            /\ lthMap' = cohortMap(lthRPRaw)
            /\ lthKeys' = cohortKeys(lthMap')
            /\ pc' = "window"
            /\ UNCHANGED response
    /\ UNCHANGED << upstream, peer, settled, realizedPriceRaw, sthRPRaw, lthRPRaw,
                    historicalPrices, livePrice, filtered, sampled,
                    lastHistorical, chartData, latestRP, latestRPDate,
                    latestSTH, latestLTH, currentPrice, now, probe >>

Window ==
    /\ pc = "window"
    /\ IF hasBadPrice(historicalPrices.v)
       THEN /\ response' = internalError
            /\ pc' = "done"
            /\ UNCHANGED filtered
       ELSE /\ filtered' = filterHistorical(historicalPrices.v)
            /\ pc' = "resample"
            /\ UNCHANGED response
    /\ UNCHANGED << upstream, peer, settled, realizedPriceRaw, sthRPRaw, lthRPRaw,
                    historicalPrices, livePrice, rpMap, rpKeys, sthMap,
                    sthKeys, lthMap, lthKeys, sampled, lastHistorical,
                    chartData, latestRP, latestRPDate, latestSTH, latestLTH,
                    currentPrice, now, probe >>

\* the resampling step returning the sampled points as they are, unmerged
ResampleUnmerged ==
    /\ pc = "resample"
    /\ lastHistorical' = lastOf(filtered)
    /\ sampled' = resample(filtered)
    /\ pc' = "latest"
    /\ UNCHANGED << upstream, peer, settled, realizedPriceRaw, sthRPRaw, lthRPRaw,
                    historicalPrices, livePrice, rpMap, rpKeys, sthMap,
                    sthKeys, lthMap, lthKeys, filtered, chartData, latestRP,
                    latestRPDate, latestSTH, latestLTH, currentPrice, now,
                    response, probe >>

Resample ==
    /\ pc = "resample"
    /\ lastHistorical' = lastOf(filtered)
    /\ sampled' = resample(filtered)
    /\ pc' = "merge"
    /\ UNCHANGED << upstream, peer, settled, realizedPriceRaw, sthRPRaw, lthRPRaw,
                    historicalPrices, livePrice, rpMap, rpKeys, sthMap,
                    sthKeys, lthMap, lthKeys, filtered, chartData, latestRP,
                    latestRPDate, latestSTH, latestLTH, currentPrice, now,
                    response, probe >>

\* sampled.map(...)
mergeAll(points) == [i \in DOMAIN points |-> chartPoint(points[i])]

\* the records collected in an array of the module, which both invocations push to
MergeShared ==
    /\ pc = "merge"
    /\ chartData' = peer.chartData \o mergeAll(sampled)
    /\ pc' = "latest"
    /\ UNCHANGED << upstream, peer, settled, realizedPriceRaw, sthRPRaw, lthRPRaw,
                    historicalPrices, livePrice, rpMap, rpKeys, sthMap,
                    sthKeys, lthMap, lthKeys, filtered, sampled,
                    lastHistorical, latestRP, latestRPDate, latestSTH,
                    latestLTH, currentPrice, now, response, probe >>

Merge ==
    /\ pc = "merge"
    /\ chartData' = mergeAll(sampled)
    /\ pc' = "latest"
    /\ UNCHANGED << upstream, peer, settled, realizedPriceRaw, sthRPRaw, lthRPRaw,
                    historicalPrices, livePrice, rpMap, rpKeys, sthMap,
                    sthKeys, lthMap, lthKeys, filtered, sampled,
                    lastHistorical, latestRP, latestRPDate, latestSTH,
                    latestLTH, currentPrice, now, response, probe >>

Latest ==
    /\ pc = "latest"
    /\ latestRP' = round(realizedPriceRaw.v[Len(realizedPriceRaw.v)].val)
    /\ latestRPDate' = realizedPriceRaw.v[Len(realizedPriceRaw.v)].ts
    /\ latestSTH' = latestOf(sthRPRaw)
    /\ latestLTH' = latestOf(lthRPRaw)
    /\ currentPrice' = resolvePrice(livePrice, lastHistorical, chartData)
    /\ pc' = "liveTick"
    /\ UNCHANGED << upstream, peer, settled, realizedPriceRaw, sthRPRaw, lthRPRaw,
                    historicalPrices, livePrice, rpMap, rpKeys, sthMap,
                    sthKeys, lthMap, lthKeys, filtered, sampled,
                    lastHistorical, chartData, now, response, probe >>

\* the instants Date.now() is observed at, relative to the last record's date
nowChoices(lastChartTs) ==
    { lastChartTs + d : d \in { 0 - dayMs - 6 * secToMs, 0 - dayMs, 0 - secToMs, 0,
                                secToMs, halfDayMs, halfDayMs + 1, 13 * secToMs } }

\* the live-tick step without the test of livePrice: the last record is
\* stamped with now and the current price whenever there is one
LiveTickUnguarded ==
    /\ pc = "liveTick"
    /\ IF Len(chartData) > 0
       THEN \E t \in nowChoices(chartData[Len(chartData)].date) :
                /\ now' = t
                /\ chartData' =
                      reconcile(chartData, t,
                                makeRecord(t, currentPrice,
                                           orElse(lookupRP(rpMap, rpKeys, t),
                                                  num(latestRP)),
                                           Null, Null))
       ELSE UNCHANGED << now, chartData >>
    /\ pc' = "respond"
    /\ UNCHANGED << upstream, peer, settled, realizedPriceRaw, sthRPRaw, lthRPRaw,
                    historicalPrices, livePrice, rpMap, rpKeys, sthMap,
                    sthKeys, lthMap, lthKeys, filtered, sampled,
                    lastHistorical, latestRP, latestRPDate, latestSTH,
                    latestLTH, currentPrice, response, probe >>

\* the live-tick step without the test of chartData.length: reading the
\* date of the last record of an empty array throws
LiveTickNoLengthTest ==
    /\ pc = "liveTick"
    /\ IF truthy(livePrice) /\ Len(chartData) = 0
       THEN /\ response' = internalError
            /\ pc' = "done"
            /\ UNCHANGED << now, chartData >>
       ELSE /\ IF truthy(livePrice)
               THEN \E t \in nowChoices(chartData[Len(chartData)].date) :
                        /\ now' = t
                        /\ chartData' = reconcile(chartData, t, livePointAt(t))
               ELSE UNCHANGED << now, chartData >>
            /\ pc' = "respond"
            /\ UNCHANGED response
    /\ UNCHANGED << upstream, peer, settled, realizedPriceRaw, sthRPRaw, lthRPRaw,
                    historicalPrices, livePrice, rpMap, rpKeys, sthMap,
                    sthKeys, lthMap, lthKeys, filtered, sampled,
                    lastHistorical, latestRP, latestRPDate, latestSTH,
                    latestLTH, currentPrice, probe >>

LiveTick ==
    /\ pc = "liveTick"
    /\ IF truthy(livePrice) /\ Len(chartData) > 0
       THEN \E t \in nowChoices(chartData[Len(chartData)].date) :
                /\ now' = t
                /\ chartData' = reconcile(chartData, t, livePointAt(t))
       ELSE UNCHANGED << now, chartData >>
    /\ pc' = "respond"
    /\ UNCHANGED << upstream, peer, settled, realizedPriceRaw, sthRPRaw, lthRPRaw,
                    historicalPrices, livePrice, rpMap, rpKeys, sthMap,
                    sthKeys, lthMap, lthKeys, filtered, sampled,
                    lastHistorical, latestRP, latestRPDate, latestSTH,
                    latestLTH, currentPrice, response, probe >>

Respond ==
    /\ pc = "respond"
    /\ response' = successResponse
    /\ pc' = "done"
    /\ UNCHANGED << upstream, peer, settled, realizedPriceRaw, sthRPRaw, lthRPRaw,
                    historicalPrices, livePrice, rpMap, rpKeys, sthMap,
                    sthKeys, lthMap, lthKeys, filtered, sampled,
                    lastHistorical, chartData, latestRP, latestRPDate,
                    latestSTH, latestLTH, currentPrice, now, probe >>

----------------------------------------------------------------------------
(* Feed contents the specifications draw from *)

MaxTail == 6
MaxRaw == 4
MaxRp == 300

rpPoint(ts, val) == [ok |-> TRUE, ts |-> ts, val |-> val]
badPoint == [ok |-> FALSE, ts |-> 0, val |-> 0]
pricePoint(x, y) == [ok |-> TRUE, x |-> x, y |-> y]
badPrice == [ok |-> FALSE, x |-> 0, y |-> 0]

\* n points, perDay of them on each day from firstDay on, values v0, v0 + dv, ...
dailySeries(n, firstDay, perDay, v0, dv) ==
    [i \in 1..n |->
        rpPoint((firstDay + (i - 1) \div perDay) * dayMs
                    + ((i - 1) % perDay) * secToMs,
                v0 + dv * (i - 1))]

coveringSeries == dailySeries(minPoints, startDay - 90, 1, 200000, 15)
lateSeries == dailySeries(minPoints, startDay + 2, 1, 200000, 15)
earlySeries == dailySeries(minPoints, startDay - minPoints, 1, 200000, 15)
collapsedSeries == dailySeries(minPoints, startDay - 40, 2, 200000, 15)
shortSeries == dailySeries(minPoints - 1, startDay - 90, 1, 200000, 15)
brokenSeries == Append(coveringSeries, badPoint)
sthSeries == dailySeries(3, startDay + 1, 1, 0, 150004)
lthSeries == dailySeries(2, startDay + 3, 2, 90000, 7)

\* n daily points that end the day before 2018-01-01
filler(n) == [i \in 1..n |-> pricePoint(startDate - 24 * (n - i + 1), 100 + i)]

\* len daily points from 2018-01-01 on, in ascending order
baseTail(len) ==
    [j \in 1..len |-> pricePoint(startDate + 24 * (j - 1), 210005 + 10000 * j)]

\* one irregularity of the feed at position k
perturb(tail, kind, k) ==
    CASE kind = "swap" ->
            [tail EXCEPT ![k] = tail[k + 1], ![k + 1] = tail[k]]
      [] kind = "dup" ->
            [tail EXCEPT ![k + 1] = pricePoint(tail[k].x, tail[k + 1].y)]
      [] kind = "zero" -> [tail EXCEPT ![k] = pricePoint(tail[k].x, 0)]
      [] kind = "old" -> [tail EXCEPT ![k] = pricePoint(startDate - 1, tail[k].y)]
      [] kind = "tiny" -> [tail EXCEPT ![k] = pricePoint(tail[k].x, 4)]
      [] OTHER -> tail

tails ==
    { baseTail(len) : len \in 0..MaxTail }
    \cup UNION { { perturb(baseTail(len), kind, k) :
                     kind \in {"swap", "dup"}, k \in 1..(len - 1) } :
                 len \in 2..MaxTail }
    \cup UNION { { perturb(baseTail(len), kind, k) :
                     kind \in {"zero", "old", "tiny"}, k \in 1..len } :
                 len \in 1..MaxTail }

failed(kind) == [kind |-> kind, isArray |-> FALSE, arr |-> << >>]
jsonObject == [kind |-> "json", isArray |-> FALSE, arr |-> << >>]
jsonArray(arr) == [kind |-> "json", isArray |-> TRUE, arr |-> arr]
histFailed(kind) == [kind |-> kind, status |-> "", isArray |-> FALSE, values |-> << >>]
histJson(status, values) ==
    [kind |-> "json", status |-> status, isArray |-> TRUE, values |-> values]
histNoArray(status) ==
    [kind |-> "json", status |-> status, isArray |-> FALSE, values |-> << >>]
liveFailed(kind) == [kind |-> kind, price |-> Null]
liveJson(price) == [kind |-> "json", price |-> price]

goodHistory == filler(minPoints - 3) \o baseTail(3)

upstreamNarrow ==
    [ rp   : { failed("error"), failed("timeout"), failed("status"),
               failed("invalid"), jsonObject, jsonArray(shortSeries),
               jsonArray(coveringSeries), jsonArray(collapsedSeries),
               jsonArray(brokenSeries) },
      sth  : { failed("timeout"), jsonArray(sthSeries) },
      lth  : { failed("status"), jsonArray(lthSeries) },
      hist : { histFailed("error"), histJson("error", goodHistory),
               histJson("ok", << >>), histNoArray("ok"),
               histJson("ok", filler(minPoints - 1)),
               histJson("ok", goodHistory),
               histJson("ok", Append(goodHistory, badPrice)) },
      live : { liveFailed("timeout"), liveJson(Null), liveJson(Some(650005)) } ]

upstreamWide ==
    { [ rp   |-> jsonArray(r),
        sth  |-> c.sth,
        lth  |-> c.lth,
        hist |-> histJson("ok", filler(minPoints) \o t),
        live |-> liveJson(l) ] :
      r \in { coveringSeries, lateSeries, earlySeries },
      c \in { [sth |-> failed("error"), lth |-> failed("error")],
              [sth |-> jsonArray(sthSeries), lth |-> jsonArray(lthSeries)] },
      t \in tails,
      l \in { Null, Some(0), Some(4), Some(650005) } }

----------------------------------------------------------------------------
(* Specifications *)

\* the handler's locals before they are assigned
LocalsInit ==
    /\ rpMap = << >> /\ rpKeys = << >>
    /\ sthMap = Null /\ sthKeys = Null
    /\ lthMap = Null /\ lthKeys = Null
    /\ filtered = << >> /\ sampled = << >> /\ lastHistorical = Null
    /\ chartData = << >>
    /\ latestRP = 0 /\ latestRPDate = 0
    /\ latestSTH = Null /\ latestLTH = Null
    /\ currentPrice = 0
    /\ now = 0
    /\ response = NoResponse
    /\ probe = Null

\* GET is entered: the five fetches are in flight
Init ==
    /\ upstream \in upstreamNarrow
    /\ settled = {}
    /\ realizedPriceRaw = Null /\ sthRPRaw = Null /\ lthRPRaw = Null
    /\ historicalPrices = Null /\ livePrice = Null
    /\ pc = "fetching"
    /\ LocalsInit
    /\ peer = Null

Next ==
    \/ FetchRealizedPrice \/ FetchSTH \/ FetchLTH \/ FetchHistorical \/ FetchLive
    \/ GatePrimary \/ GateHistorical \/ BuildMaps \/ Window \/ Resample
    \/ Merge \/ Latest \/ LiveTick \/ Respond

Spec == Init /\ [][Next]_vars

\* every fetch carries an AbortSignal timeout and so settles, and the handler
\* has no loop and no other await: whichever step is enabled is taken
SpecFair == Init /\ [][Next]_vars /\ WF_vars(Next)

\* GET at the moment Promise.all has resolved, over a wider range of feeds
InitMerge ==
    /\ upstream \in upstreamWide
    /\ settled = Feeds
    /\ realizedPriceRaw = fetchBGeometricsMetric(upstream.rp)
    /\ sthRPRaw = fetchBGeometricsMetric(upstream.sth)
    /\ lthRPRaw = fetchBGeometricsMetric(upstream.lth)
    /\ historicalPrices = fetchBlockchainInfoPrices(upstream.hist)
    /\ livePrice = fetchLivePrice(upstream.live)
    /\ pc = "fetching"
    /\ LocalsInit
    /\ peer = Null

NextMerge ==
    \/ GatePrimary \/ GateHistorical \/ BuildMaps \/ Window \/ Resample
    \/ Merge \/ Latest \/ LiveTick \/ Respond

SpecMerge == InitMerge /\ [][NextMerge]_vars

----------------------------------------------------------------------------
(* buildDayMap and lookupRP on their own, over every short raw series *)

Max(S) == CHOOSE x \in S : \A y \in S : y <= x

lookupTimes ==
    { startDay * dayMs, startDay * dayMs + 7 * secToMs,
      (startDay + 1) * dayMs + 5 * secToMs, (startDay + 3) * dayMs,
      (startDay + 4) * dayMs + dayMs - 1 }

probeTimes ==
    { (startDay + d) * dayMs + o : d \in (0 - 1)..5, o \in {0, halfDayMs, dayMs - 1} }

\* the points at the given instants, each with a value of its own
rawOver(times) == [i \in DOMAIN times |-> rpPoint(times[i], 10 * i + 5)]

noFeed ==
    [ rp |-> failed("error"), sth |-> failed("error"), lth |-> failed("error"),
      hist |-> histFailed("error"), live |-> liveFailed("error") ]

InitLookup ==
    /\ \E n \in 1..MaxRaw : \E times \in [1..n -> lookupTimes] :
          /\ realizedPriceRaw = Some(rawOver(times))
          /\ upstream = [noFeed EXCEPT !.rp = jsonArray(rawOver(times))]
    /\ settled = {"rp"}
    /\ sthRPRaw = Null /\ lthRPRaw = Null
    /\ historicalPrices = Null /\ livePrice = Null
    /\ pc = "lookupBuild"
    /\ LocalsInit
    /\ peer = Null

LookupBuild ==
    /\ pc = "lookupBuild"
    /\ rpMap' = buildDayMap(realizedPriceRaw.v)
    /\ rpKeys' = sortedKeysOf(rpMap')
    /\ pc' = "lookup"
    /\ UNCHANGED << upstream, peer, settled, realizedPriceRaw, sthRPRaw, lthRPRaw,
                    historicalPrices, livePrice, sthMap, sthKeys, lthMap,
                    lthKeys, filtered, sampled, lastHistorical, chartData,
                    latestRP, latestRPDate, latestSTH, latestLTH, currentPrice,
                    now, response, probe >>

LookupProbe ==
    /\ pc = "lookup"
    /\ \E t \in probeTimes :
          probe' = Some([t |-> t, r |-> lookupRP(rpMap, rpKeys, t)])
    /\ UNCHANGED << upstream, peer, settled, realizedPriceRaw, sthRPRaw, lthRPRaw,
                    historicalPrices, livePrice, pc, rpMap, rpKeys, sthMap,
                    sthKeys, lthMap, lthKeys, filtered, sampled,
                    lastHistorical, chartData, latestRP, latestRPDate,
                    latestSTH, latestLTH, currentPrice, now, response >>

NextLookup == LookupBuild \/ LookupProbe

SpecLookup == InitLookup /\ [][NextLookup]_vars

----------------------------------------------------------------------------
(* The band fields of a record, over every realized price up to MaxRp tenths *)

InitBands ==
    /\ upstream = noFeed
    /\ settled = {}
    /\ realizedPriceRaw = Null /\ sthRPRaw = Null /\ lthRPRaw = Null
    /\ historicalPrices = Null /\ livePrice = Null
    /\ pc = "bands"
    /\ LocalsInit
    /\ peer = Null

RecordBands ==
    /\ pc = "bands"
    /\ \E rp \in 0..MaxRp :
          chartData' = << makeRecord(startDate * secToMs, 210005, rp, Null, Null) >>
    /\ UNCHANGED << upstream, peer, settled, realizedPriceRaw, sthRPRaw, lthRPRaw,
                    historicalPrices, livePrice, pc, rpMap, rpKeys, sthMap,
                    sthKeys, lthMap, lthKeys, filtered, sampled,
                    lastHistorical, latestRP, latestRPDate, latestSTH,
                    latestLTH, currentPrice, now, response, probe >>

NextBands == RecordBands

SpecBands == InitBands /\ [][NextBands]_vars

----------------------------------------------------------------------------
(* Two invocations of GET in one process.  Everything GET works on is a
   local of the invocation; the module has no variable of its own.  The
   variables above are the invocation that is running, peer is the other
   one.  A handler gives up control only where it awaits, which is at
   Promise.all, and when it has returned. *)

\* the running invocation: what its fetches observe, and its locals
invocation ==
    [ upstream |-> upstream, settled |-> settled,
      realizedPriceRaw |-> realizedPriceRaw, sthRPRaw |-> sthRPRaw,
      lthRPRaw |-> lthRPRaw, historicalPrices |-> historicalPrices,
      livePrice |-> livePrice, pc |-> pc,
      rpMap |-> rpMap, rpKeys |-> rpKeys, sthMap |-> sthMap,
      sthKeys |-> sthKeys, lthMap |-> lthMap, lthKeys |-> lthKeys,
      filtered |-> filtered, sampled |-> sampled,
      lastHistorical |-> lastHistorical, chartData |-> chartData,
      latestRP |-> latestRP, latestRPDate |-> latestRPDate,
      latestSTH |-> latestSTH, latestLTH |-> latestLTH,
      currentPrice |-> currentPrice, now |-> now, response |-> response ]

\* an invocation that has just issued its five fetches
entered(up) ==
    [ upstream |-> up, settled |-> {},
      realizedPriceRaw |-> Null, sthRPRaw |-> Null, lthRPRaw |-> Null,
      historicalPrices |-> Null, livePrice |-> Null, pc |-> "fetching",
      rpMap |-> << >>, rpKeys |-> << >>, sthMap |-> Null, sthKeys |-> Null,
      lthMap |-> Null, lthKeys |-> Null,
      filtered |-> << >>, sampled |-> << >>, lastHistorical |-> Null,
      chartData |-> << >>, latestRP |-> 0, latestRPDate |-> 0,
      latestSTH |-> Null, latestLTH |-> Null, currentPrice |-> 0, now |-> 0,
      response |-> NoResponse ]

\* the other invocation's continuation runs
Switch ==
    /\ pc \in {"fetching", "done"}
    /\ peer' = invocation
    /\ upstream' = peer.upstream /\ settled' = peer.settled
    /\ realizedPriceRaw' = peer.realizedPriceRaw
    /\ sthRPRaw' = peer.sthRPRaw /\ lthRPRaw' = peer.lthRPRaw
    /\ historicalPrices' = peer.historicalPrices
    /\ livePrice' = peer.livePrice /\ pc' = peer.pc
    /\ rpMap' = peer.rpMap /\ rpKeys' = peer.rpKeys
    /\ sthMap' = peer.sthMap /\ sthKeys' = peer.sthKeys
    /\ lthMap' = peer.lthMap /\ lthKeys' = peer.lthKeys
    /\ filtered' = peer.filtered /\ sampled' = peer.sampled
    /\ lastHistorical' = peer.lastHistorical /\ chartData' = peer.chartData
    /\ latestRP' = peer.latestRP /\ latestRPDate' = peer.latestRPDate
    /\ latestSTH' = peer.latestSTH /\ latestLTH' = peer.latestLTH
    /\ currentPrice' = peer.currentPrice /\ now' = peer.now
    /\ response' = peer.response
    /\ UNCHANGED probe

upstreamTwo ==
    { [ rp |-> jsonArray(coveringSeries), sth |-> jsonArray(sthSeries),
        lth |-> jsonArray(lthSeries), hist |-> histJson("ok", goodHistory),
        live |-> liveJson(Some(650005)) ],
      [ rp |-> jsonArray(lateSeries), sth |-> failed("timeout"),
        lth |-> failed("status"), hist |-> histJson("ok", goodHistory),
        live |-> liveJson(Null) ],
      [ rp |-> jsonArray(shortSeries), sth |-> jsonArray(sthSeries),
        lth |-> failed("status"), hist |-> histJson("ok", goodHistory),
        live |-> liveJson(Some(650005)) ],
      [ rp |-> jsonArray(coveringSeries), sth |-> failed("timeout"),
        lth |-> jsonArray(lthSeries),
        hist |-> histJson("ok", Append(goodHistory, badPrice)),
        live |-> liveFailed("timeout") ] }

InitTwo ==
    /\ upstream \in upstreamTwo
    /\ settled = {}
    /\ realizedPriceRaw = Null /\ sthRPRaw = Null /\ lthRPRaw = Null
    /\ historicalPrices = Null /\ livePrice = Null
    /\ pc = "fetching"
    /\ LocalsInit
    /\ peer \in { entered(up) : up \in upstreamTwo }

NextTwo ==
    \/ FetchRealizedPrice \/ FetchSTH \/ FetchLTH \/ FetchHistorical \/ FetchLive
    \/ GatePrimary \/ GateHistorical \/ BuildMaps \/ Window \/ Resample
    \/ Merge \/ Latest \/ LiveTick \/ Respond \/ Switch

SpecTwo == InitTwo /\ [][NextTwo]_vars

----------------------------------------------------------------------------
(* The end-to-end example: a primary series with 20000 on day0 and 22000 on
   day10, and historical prices 21000 at day0 and 23500 at day10; as the two
   points alone, and within series long enough for the gates *)

day0 == startDay
day10 == startDay + 10

examplePrimary ==
    << rpPoint(day0 * dayMs, 200000), rpPoint(day10 * dayMs, 220000) >>

exampleHistory ==
    << pricePoint(day0 * 24, 210000), pricePoint(day10 * 24, 235000) >>

\* n daily points that end the day before day0
earlierPrimary(n) == dailySeries(n, day0 - n, 1, 150000, 10)

primaryAround ==
    { earlierPrimary(minPoints - 2) \o examplePrimary,
      earlierPrimary(minPoints - 1) \o examplePrimary,
      earlierPrimary(minPoints - 2)
          \o << rpPoint(day0 * dayMs + 3 * secToMs, 180000),
                rpPoint(day0 * dayMs + 9 * secToMs, 200000),
                rpPoint((day0 + 4) * dayMs, 210000),
                rpPoint(day10 * dayMs + halfDayMs, 220000),
                rpPoint((day10 + 1) * dayMs, 230000) >> }

historyAround ==
    { filler(minPoints - 2) \o exampleHistory,
      filler(minPoints) \o << pricePoint(day0 * 24 + 5, 0) >> \o exampleHistory }

upstreamExample ==
    { [ rp |-> jsonArray(r), sth |-> failed("status"), lth |-> failed("status"),
        hist |-> histJson("ok", h), live |-> liveFailed("error") ] :
      r \in primaryAround \cup {examplePrimary},
      h \in historyAround \cup {exampleHistory} }

InitExample ==
    /\ upstream \in upstreamExample
    /\ settled = {}
    /\ realizedPriceRaw = Null /\ sthRPRaw = Null /\ lthRPRaw = Null
    /\ historicalPrices = Null /\ livePrice = Null
    /\ pc = "fetching"
    /\ LocalsInit
    /\ peer = Null

SpecExample == InitExample /\ [][Next]_vars

----------------------------------------------------------------------------
(* Claims *)

dayKeysOf(raw) == { dayOf(raw[i].ts) : i \in DOMAIN raw }

\* C1: lookupRP returns the value stored at the greatest day-key that is not
\* later than the query timestamp, and null when the query is earlier than
\* every day-key.
C1_ForwardFill ==
    (pc = "lookup" /\ probe.some) =>
        LET earlier == { d \in dayKeysOf(realizedPriceRaw.v) : d <= probe.v.t }
        IN  IF earlier = {} THEN ~probe.v.r.some
            ELSE /\ probe.v.r.some
                 /\ probe.v.r = mapGet(rpMap, Max(earlier))

\* a lookup between two of at least three day-keys, answered by the search
C1_Witness ==
    /\ pc = "lookup" /\ probe.some
    /\ Len(rpKeys) >= 3
    /\ ~mapGet(rpMap, dayOf(probe.v.t)).some
    /\ probe.v.r.some
    /\ rpKeys[1] < probe.v.t /\ probe.v.t < rpKeys[Len(rpKeys)]

bandChain(r) ==
    /\ r.rp_0_8 < r.rp
    /\ r.rp < r.rp_1_25
    /\ r.rp_1_25 < r.rp_1_7
    /\ r.rp_1_7 < r.rp_2_4
    /\ r.rp_2_4 < r.rp_3_2

\* C6 as stated: every record with rp > 0 has strictly increasing bands.
C6_BandsAnyPositive ==
    \A i \in DOMAIN chartData : chartData[i].rp > 0 => bandChain(chartData[i])

\* C6 as amended: every record whose rounded rp is at least 5 has strictly
\* increasing bands rp_0_8 < rp < rp_1_25 < rp_1_7 < rp_2_4 < rp_3_2.
C6_BandsFromFive ==
    \A i \in DOMAIN chartData : chartData[i].rp >= 5 => bandChain(chartData[i])

C6_Witness ==
    Len(chartData) = 1 /\ chartData[1].rp = 5 /\ chartData[1].rp_0_8 = 4


\* the number of distinct UTC days of the primary series the fetch delivered
normalizedDays ==
    IF realizedPriceRaw.some THEN Cardinality(dayKeysOf(realizedPriceRaw.v)) ELSE 0

failedWith(code) ==
    /\ response.status = code
    /\ DOMAIN response.body = {"error"}

\* C2 as stated: a primary series with fewer than 100 normalized days always
\* ends in an operation-level failure, never in a success response.
C2_GateOnDays ==
    (pc = "done" /\ normalizedDays < minPoints) => response.status # 200

\* C2 as amended: a primary series that is absent or has fewer than 100 raw
\* points always ends in the 502 failure, with no data and no record built.
C2_GateOnRawPoints ==
    (pc = "done" /\ (~realizedPriceRaw.some \/ Len(realizedPriceRaw.v) < minPoints))
        => /\ failedWith(502)
           /\ chartData = << >>

C2_Witness ==
    /\ pc = "done"
    /\ realizedPriceRaw.some /\ Len(realizedPriceRaw.v) = minPoints - 1
    /\ failedWith(502)


primaryOk ==
    /\ realizedPriceRaw.some
    /\ Len(realizedPriceRaw.v) >= minPoints
    /\ ~hasBadPoint(realizedPriceRaw.v)

historyOk ==
    /\ historicalPrices.some
    /\ Len(historicalPrices.v) >= minPoints
    /\ ~hasBadPrice(historicalPrices.v)

cohortOk(raw) == raw.some => ~hasBadPoint(raw.v)

absentFeeds ==
    { f \in Feeds :
        \/ f = "rp" /\ ~realizedPriceRaw.some
        \/ f = "sth" /\ ~sthRPRaw.some
        \/ f = "lth" /\ ~lthRPRaw.some
        \/ f = "hist" /\ ~historicalPrices.some
        \/ f = "live" /\ ~livePrice.some }

\* C8 as stated: when exactly one of the five fetches returned absence and
\* every other feed delivered usable data, GET does not fail.
C8_AnyAbsenceTolerated ==
    ( /\ pc = "done"
      /\ Cardinality(absentFeeds) = 1
      /\ realizedPriceRaw.some => primaryOk
      /\ historicalPrices.some => historyOk
      /\ cohortOk(sthRPRaw) /\ cohortOk(lthRPRaw) )
        => response.status = 200

\* C8 as amended: with a usable primary and historical series GET succeeds
\* whichever of the STH, LTH and live feeds are absent, and GET answers 502
\* exactly when the primary or the historical result is absent or has fewer
\* than 100 points.
C8_OptionalAbsenceTolerated ==
    pc = "done" =>
        /\ (primaryOk /\ historyOk /\ cohortOk(sthRPRaw) /\ cohortOk(lthRPRaw))
              => response.status = 200
        /\ failedWith(502) <=>
              \/ ~realizedPriceRaw.some
              \/ ~historicalPrices.some
              \/ Len(realizedPriceRaw.v) < minPoints
              \/ Len(historicalPrices.v) < minPoints

C8_Witness ==
    /\ pc = "done"
    /\ absentFeeds = {"sth"}
    /\ response.status = 200

\* C9: a response is sent exactly when the handler is done; it is the success
\* object with data, the 502 error or the 500 error; an error body holds the
\* error message alone; a throw while the maps are built or the history is
\* filtered ends in the 500 response.
C9_ThreeResponses ==
    /\ pc # "done" => response.status = 0
    /\ pc = "done" =>
          \/ /\ response.status = 200
             /\ "data" \in DOMAIN response.body
             /\ "error" \notin DOMAIN response.body
          \/ failedWith(502)
          \/ failedWith(500)
    /\ ( /\ pc = "done"
         /\ ~tooSparse(realizedPriceRaw) /\ ~tooSparse(historicalPrices)
         /\ \/ hasBadPoint(realizedPriceRaw.v)
            \/ ~cohortOk(sthRPRaw) \/ ~cohortOk(lthRPRaw)
            \/ hasBadPrice(historicalPrices.v) )
          => failedWith(500)

\* the filter of the history throws after the day maps were built
C9_Witness ==
    /\ pc = "done"
    /\ failedWith(500)
    /\ hasBadPrice(historicalPrices.v)
    /\ Len(rpMap) >= minPoints

\* C10: the gate is reached only when all five fetches have settled; each
\* result is what its own fetcher makes of its own endpoint's answer, whatever
\* the other fetches did and in whatever order they settled; nothing else of
\* the handler's state changes while fetches are in flight.
C10_FanIn ==
    /\ pc # "fetching" => settled = Feeds
    /\ realizedPriceRaw =
          IF "rp" \in settled THEN fetchBGeometricsMetric(upstream.rp) ELSE Null
    /\ sthRPRaw =
          IF "sth" \in settled THEN fetchBGeometricsMetric(upstream.sth) ELSE Null
    /\ lthRPRaw =
          IF "lth" \in settled THEN fetchBGeometricsMetric(upstream.lth) ELSE Null
    /\ historicalPrices =
          IF "hist" \in settled THEN fetchBlockchainInfoPrices(upstream.hist) ELSE Null
    /\ livePrice =
          IF "live" \in settled THEN fetchLivePrice(upstream.live) ELSE Null
    /\ pc = "fetching" =>
          /\ response.status = 0
          /\ chartData = << >> /\ rpMap = << >> /\ filtered = << >>

\* a success although the STH and LTH fetches failed and settled before the
\* others' data was used
C10_Witness ==
    /\ pc = "done"
    /\ response.status = 200
    /\ upstream.sth.kind = "timeout"
    /\ upstream.lth.kind = "status"
    /\ livePrice.some


\* the sequence the merge step produced, before the live tick
mergedData == mergeAll(sampled)

\* the live-tick step took its branch: a live price the handler accepts
\* (route.ts:223, neither null nor 0) and a last record
folded == truthy(livePrice) /\ Len(mergedData) > 0

\* C3: with a non-empty merged sequence ending at T and a live price, now more
\* than 12 hours after T makes the sequence one record longer, ending at now;
\* otherwise the length stays and the last record has date now and the
\* rounded live price.
C3_AppendOrReplace ==
    (pc \in {"respond", "done"} /\ folded) =>
        LET T    == mergedData[Len(mergedData)].date
            last == chartData[Len(chartData)]
        IN  IF now - T > halfDayMs
            THEN /\ Len(chartData) = Len(mergedData) + 1
                 /\ last.date = now
            ELSE /\ Len(chartData) = Len(mergedData)
                 /\ last.date = now
                 /\ last.price = round(livePrice.v)

\* a tick thirteen hours after the last record
C3_Witness ==
    /\ pc = "done" /\ folded
    /\ now = mergedData[Len(mergedData)].date + 13 * secToMs
    /\ Len(chartData) = Len(mergedData) + 1

strictlyAscendingX(f) == \A i \in 1..(Len(f) - 1) : f[i].x < f[i + 1].x

resampled == pc \in {"merge", "latest", "liveTick", "respond", "done"}

\* C4 as stated: whatever the order of the filtered points, the resampled
\* sequence ends with the filtered point of greatest timestamp.
C4_LatestAnyOrder ==
    (resampled /\ Len(filtered) > 0) =>
        /\ sampled[Len(sampled)].x = Max({ filtered[i].x : i \in DOMAIN filtered })
        /\ \E i \in DOMAIN filtered : filtered[i] = sampled[Len(sampled)]

\* C4 as amended: when the filtered points are in strictly ascending order of
\* timestamp, the resampled sequence ends with the last filtered point, which
\* is the one of greatest timestamp, whether or not its position is a
\* multiple of 4.
C4_LatestWhenAscending ==
    (resampled /\ Len(filtered) > 0 /\ strictlyAscendingX(filtered)) =>
        /\ sampled[Len(sampled)] = filtered[Len(filtered)]
        /\ sampled[Len(sampled)].x = Max({ filtered[i].x : i \in DOMAIN filtered })

\* six ascending points: positions 1 and 5 are kept and the sixth is appended
C4_Witness ==
    /\ resampled
    /\ Len(filtered) = 6 /\ strictlyAscendingX(filtered)
    /\ Len(sampled) = 3

ascendingDates(data) == \A i \in 1..(Len(data) - 1) : data[i].date < data[i + 1].date

\* C5 as stated: the data of every success response is strictly ascending by
\* date, whatever the feed's order and whatever now is.
C5_AlwaysAscending ==
    (pc = "done" /\ response.status = 200) => ascendingDates(response.body.data)

\* C5 as amended: the data of a success response is strictly ascending by
\* date when the kept historical points are in strictly ascending order of
\* timestamp and, if a live tick is folded in, now is later than the date of
\* the second-to-last merged record.
C5_AscendingWhenOrdered ==
    ( /\ pc = "done" /\ response.status = 200
      /\ strictlyAscendingX(filtered)
      /\ (folded /\ Len(mergedData) >= 2)
            => now > mergedData[Len(mergedData) - 1].date )
        => ascendingDates(response.body.data)

\* a live tick earlier than the last record it replaces
C5_Witness ==
    /\ pc = "done" /\ response.status = 200
    /\ strictlyAscendingX(filtered)
    /\ folded /\ Len(mergedData) >= 3
    /\ now < mergedData[Len(mergedData)].date
    /\ now > mergedData[Len(mergedData) - 1].date
    /\ Len(response.body.data) = Len(mergedData)

windowed == pc \in {"resample", "merge", "latest", "liveTick", "respond", "done"}

inWindow(d) == d.x >= startDate /\ d.y > 0

\* C7: the filtered set holds exactly the historical points with timestamp
\* >= 2018-01-01T00:00Z and value > 0, and every record of the merge step
\* carries the date and rounded price of such a point.
C7_Windowing ==
    /\ windowed =>
          /\ \A i \in DOMAIN filtered : inWindow(filtered[i])
          /\ Len(filtered) =
                Cardinality({ j \in DOMAIN historicalPrices.v :
                                inWindow(historicalPrices.v[j]) })
          /\ \A j \in DOMAIN historicalPrices.v :
                inWindow(historicalPrices.v[j]) =>
                    \E i \in DOMAIN filtered : filtered[i] = historicalPrices.v[j]
    /\ pc \in {"latest", "liveTick"} =>
          \A i \in DOMAIN chartData :
              \E j \in DOMAIN historicalPrices.v :
                  /\ inWindow(historicalPrices.v[j])
                  /\ chartData[i].date = historicalPrices.v[j].x * secToMs
                  /\ chartData[i].price = round(historicalPrices.v[j].y)

\* a history with points before 2018 and a zero value after it
C7_Witness ==
    /\ pc = "latest" /\ Len(chartData) >= 2
    /\ \E j \in DOMAIN historicalPrices.v :
          historicalPrices.v[j].x >= startDate /\ historicalPrices.v[j].y = 0
    /\ \E j \in DOMAIN historicalPrices.v :
          historicalPrices.v[j].x < startDate /\ historicalPrices.v[j].y > 0

\* the stages of an invocation in the order the handler passes them
stageOf(p) ==
    CASE p = "fetching" -> 0
      [] p = "gateHistorical" -> 1
      [] p = "buildMaps" -> 2
      [] p = "window" -> 3
      [] p = "resample" -> 4
      [] p = "merge" -> 5
      [] p = "latest" -> 6
      [] p = "liveTick" -> 7
      [] p = "respond" -> 8
      [] OTHER -> 9

\* C11: every invocation eventually ends, with exactly one response, the
\* success response or a failure; until then it passes the stages fetched,
\* gated, windowed, resampled, merged, reconciled one after the other, a
\* failure leaving from a gate or from a throwing step; the response, once
\* sent, stays; and a failure carries the error message and no record.
C11_Lifecycle ==
    /\ <>(pc = "done" /\ response.status \in {200, 500, 502})
    /\ [][ /\ pc = "done" => (pc' = "done" /\ response' = response)
           /\ pc' # pc =>
                 \/ stageOf(pc') = stageOf(pc) + 1
                 \/ /\ pc' = "done"
                    /\ pc \in {"fetching", "gateHistorical", "buildMaps", "window"}
                    /\ response'.status \in {500, 502}
           /\ (pc' = "done" /\ pc = "respond") => response'.status = 200 ]_vars
    /\ []((pc = "done" /\ response.status # 200) =>
              (DOMAIN response.body = {"error"}))

\* a success that went through every stage, with a live tick folded in
C11_Witness ==
    /\ pc = "done" /\ response.status = 200
    /\ Len(filtered) = 3 /\ Len(sampled) = 2
    /\ Len(response.body.data) >= 2
    /\ now > 0

\* C12: two invocations that observed the same upstream answers return the
\* same status; their failures are the same; with no live price folded in
\* their bodies are the same; with one, the records before the last merged
\* position and every scalar are the same, each last record carries its own
\* invocation's now and the rounded live price, and equal values of now give
\* equal bodies.
C12_Idempotent ==
    (pc = "done" /\ peer.pc = "done" /\ upstream = peer.upstream) =>
        /\ response.status = peer.response.status
        /\ response.status # 200 => response = peer.response
        /\ response.status = 200 =>
              LET a == response.body.data
                  b == peer.response.body.data
                  m == Len(mergedData)
              IN  /\ [response.body EXCEPT !.data = << >>, !.dataPoints = 0]
                        = [peer.response.body EXCEPT !.data = << >>, !.dataPoints = 0]
                  /\ Len(a) >= m /\ Len(b) >= m
                  /\ \A i \in 1..(m - 1) : a[i] = b[i] /\ a[i] = mergedData[i]
                  /\ ~folded => (a = b /\ a = mergedData)
                  /\ now = peer.now => response = peer.response
                  /\ folded =>
                        /\ a[Len(a)].date = now
                        /\ b[Len(b)].date = peer.now
                        /\ a[Len(a)].price = round(livePrice.v)
                        /\ b[Len(b)].price = round(livePrice.v)

\* the same answers, a live price, and two different instants of the tick
C12_Witness ==
    /\ pc = "done" /\ peer.pc = "done" /\ upstream = peer.upstream
    /\ response.status = 200
    /\ folded /\ now # peer.now
    /\ Len(response.body.data) = Len(peer.response.body.data) + 1

cohortAt(map, keys, ts, fallback) ==
    IF map.some /\ keys.some THEN lookupRP(map.v, keys.v, ts) ELSE fallback

\* the data GET computes from five fetch results and the instant t of its
\* live tick, as one expression of the handler's helpers
aloneData(rpRaw, sthRaw, lthRaw, hist, live, t) ==
    LET rpM == buildDayMap(rpRaw)
        rpK == sortedKeysOf(rpM)
        sM  == cohortMap(sthRaw)
        sK  == cohortKeys(sM)
        lM  == cohortMap(lthRaw)
        lK  == cohortKeys(lM)
        s   == resample(filterHistorical(hist))
        merged ==
            [i \in DOMAIN s |->
                makeRecord(s[i].x * secToMs, s[i].y,
                           orElse(lookupRP(rpM, rpK, s[i].x * secToMs), 0),
                           cohortAt(sM, sK, s[i].x * secToMs, Null),
                           cohortAt(lM, lK, s[i].x * secToMs, Null))]
        tick ==
            makeRecord(t, live.v,
                       orElse(lookupRP(rpM, rpK, t),
                              num(round(rpRaw[Len(rpRaw)].val))),
                       cohortAt(sM, sK, t, latestNum(latestOf(sthRaw))),
                       cohortAt(lM, lK, t, latestNum(latestOf(lthRaw))))
    IN  IF truthy(live) /\ Len(merged) > 0
        THEN reconcile(merged, t, tick)
        ELSE merged

\* the response of an invocation that runs alone on the answers up, with its
\* live tick at t
aloneResponse(up, t) ==
    LET rpRaw  == fetchBGeometricsMetric(up.rp)
        sthRaw == fetchBGeometricsMetric(up.sth)
        lthRaw == fetchBGeometricsMetric(up.lth)
        hist   == fetchBlockchainInfoPrices(up.hist)
        live   == fetchLivePrice(up.live)
    IN  IF tooSparse(rpRaw)
        THEN errorResponse("Failed to fetch on-chain realized price data", 502)
        ELSE IF tooSparse(hist)
        THEN errorResponse("Failed to fetch historical BTC price data", 502)
        ELSE IF \/ hasBadPoint(rpRaw.v) \/ cohortThrows(sthRaw)
                \/ cohortThrows(lthRaw) \/ hasBadPrice(hist.v)
        THEN internalError
        ELSE LET f    == filterHistorical(hist.v)
                 data == aloneData(rpRaw.v, sthRaw, lthRaw, hist.v, live, t)
                 merged == aloneData(rpRaw.v, sthRaw, lthRaw, hist.v, Null, t)
             IN  [ status |-> 200,
                   body   |-> [ data         |-> data,
                                latestRP     |-> round(rpRaw.v[Len(rpRaw.v)].val),
                                latestRPDate |-> rpRaw.v[Len(rpRaw.v)].ts,
                                latestSTH    |-> latestOf(sthRaw),
                                latestLTH    |-> latestOf(lthRaw),
                                latestPrice  |->
                                    round(resolvePrice(live, lastOf(f), merged)),
                                dataPoints   |-> Len(data) ] ]

\* C13: whatever the other invocation did in between, an invocation that has
\* returned holds the day map, the key array and the records built from its
\* own fetch results, and its response is the one an invocation running
\* alone on the same fetch results gives; this holds of both invocations.
C13_Isolation ==
    /\ pc = "done" =>
          /\ response = aloneResponse(upstream, now)
          /\ response.status = 200 =>
                /\ rpMap = buildDayMap(realizedPriceRaw.v)
                /\ rpKeys = sortedKeysOf(rpMap)
                /\ chartData = response.body.data
    /\ peer.pc = "done" =>
          /\ peer.response = aloneResponse(peer.upstream, peer.now)
          /\ peer.response.status = 200 =>
                /\ peer.rpMap = buildDayMap(peer.realizedPriceRaw.v)
                /\ peer.chartData = peer.response.body.data

\* two invocations on different answers that both returned their records,
\* the second one having started its fetches before the first returned
C13_Witness ==
    /\ pc = "done" /\ peer.pc = "done"
    /\ upstream # peer.upstream
    /\ response.status = 200 /\ peer.response.status = 200
    /\ Len(response.body.data) > 0 /\ Len(peer.response.body.data) > 0
    /\ rpMap # peer.rpMap

exampleRecords ==
    << [ date |-> day0 * dayMs, price |-> 21000, rp |-> 20000,
         rp_0_8 |-> 16000, rp_1_25 |-> 25000, rp_1_7 |-> 34000,
         rp_2_4 |-> 48000, rp_3_2 |-> 64000, sth_rp |-> Null, lth_rp |-> Null ],
       [ date |-> day10 * dayMs, price |-> 23500, rp |-> 22000,
         rp_0_8 |-> 17600, rp_1_25 |-> 27500, rp_1_7 |-> 37400,
         rp_2_4 |-> 52800, rp_3_2 |-> 70400, sth_rp |-> Null, lth_rp |-> Null ] >>

\* C14 as stated: from the two-point primary series and the two historical
\* points, without cohort data and live price, GET returns the two records.
C14_ExampleAsGiven ==
    ( /\ pc = "done"
      /\ upstream.rp.arr = examplePrimary
      /\ upstream.hist.values = exampleHistory )
        => /\ response.status = 200
           /\ response.body.data = exampleRecords

\* C14 as amended: when the primary series has at least 100 points with
\* 20000 as the value of day0 and 22000 as the value of day10, and the
\* historical series has at least 100 points of which the window keeps the
\* two at day0 and day10, GET returns exactly the two records; the series of
\* two points alone end in the 502 failure.
C14_ExampleWithinGates ==
    pc = "done" =>
        /\ ( /\ upstream.rp.arr \in primaryAround
             /\ upstream.hist.values \in historyAround )
              => /\ response.status = 200
                 /\ response.body.data = exampleRecords
                 /\ response.body.dataPoints = 2
        /\ ( \/ upstream.rp.arr = examplePrimary
             \/ upstream.hist.values = exampleHistory )
              => failedWith(502)

\* the example within a primary series of several points a day
C14_Witness ==
    /\ pc = "done"
    /\ Len(upstream.rp.arr) = minPoints + 3
    /\ Len(upstream.hist.values) = minPoints + 3
    /\ response.status = 200
    /\ response.body.data = exampleRecords

\* C15 as stated: without a live price and with a non-empty historical series
\* latestPrice is the rounded price of the last historical point, and with a
\* live price it is the rounded live price.
C15_LastHistoricalPoint ==
    (pc = "done" /\ response.status = 200) =>
        /\ livePrice.some => response.body.latestPrice = round(livePrice.v)
        /\ (~livePrice.some /\ Len(historicalPrices.v) > 0) =>
              response.body.latestPrice
                  = round(historicalPrices.v[Len(historicalPrices.v)].y)

\* C15 as amended: latestPrice is the rounded live price when the live fetch
\* returned one (0 included); else the rounded price of the last kept
\* historical point (the last one with timestamp >= 2018-01-01 and value
\* > 0); else the price of the last merged record; else 0, which is what it
\* is when no historical point is kept.
C15_LastKeptPoint ==
    (pc = "done" /\ response.status = 200) =>
        /\ response.body.latestPrice =
              IF livePrice.some THEN round(livePrice.v)
              ELSE IF Len(filtered) > 0 THEN round(filtered[Len(filtered)].y)
              ELSE IF Len(mergedData) > 0 THEN mergedData[Len(mergedData)].price
              ELSE 0
        /\ (~livePrice.some /\ Len(filtered) = 0) => response.body.latestPrice = 0

\* no live price, and a last historical point the window does not keep
C15_Witness ==
    /\ pc = "done" /\ response.status = 200
    /\ ~livePrice.some
    /\ Len(filtered) > 0
    /\ ~keepPoint(historicalPrices.v[Len(historicalPrices.v)])
    /\ response.body.latestPrice = round(filtered[Len(filtered)].y)
    /\ response.body.latestPrice > 0

\* C16: when the live fetch returned no price (or the price 0, which the
\* handler takes for none), the live-tick step changes nothing: the returned
\* data is the sequence of the merge step, record by record, and dataPoints
\* is its length.
C16_NoTickNoChange ==
    (pc \in {"respond", "done"} /\ ~truthy(livePrice)) =>
        /\ chartData = mergedData
        /\ now = 0
        /\ pc = "done" =>
              /\ response.body.data = mergedData
              /\ response.body.dataPoints = Len(mergedData)

\* a success without a live price whose last record is a historical one
C16_Witness ==
    /\ pc = "done" /\ response.status = 200
    /\ ~livePrice.some
    /\ Len(mergedData) >= 2
    /\ response.body.data[Len(mergedData)].date = sampled[Len(sampled)].x * secToMs

\* C17: the historical-price fetcher returns a series exactly when the
\* response is a success, carries status "ok" and a values array that is not
\* empty; in every other case, the empty array included, it returns null.
C17_AbsentUnlessNonEmpty ==
    "hist" \in settled =>
        ( historicalPrices.some <=>
            /\ upstream.hist.kind = "json"
            /\ upstream.hist.status = "ok"
            /\ upstream.hist.isArray
            /\ Len(upstream.hist.values) > 0 )

\* the number (in tenths) a record of the returned data took its price from
priceSource(i) ==
    IF folded /\ i = Len(chartData) THEN livePrice.v ELSE sampled[i].y

\* C18 as stated: every record of a success response has a price > 0.
C18_PricePositive ==
    (pc = "done" /\ response.status = 200) =>
        \A i \in DOMAIN response.body.data : response.body.data[i].price > 0

\* C18 as amended: every record's price is a whole number >= 0, the kept
\* historical value or the folded live price rounded to the nearest whole
\* number (halves up); it is > 0 exactly when that value is at least 0.5.
C18_PriceRounded ==
    (pc = "done" /\ response.status = 200) =>
        \A i \in DOMAIN response.body.data :
            LET price == response.body.data[i].price
                v     == priceSource(i)
            IN  /\ price >= 0
                /\ v > 0
                /\ 10 * price - 5 <= v /\ v < 10 * price + 5
                /\ price > 0 <=> v >= 5

\* a kept point of value 0.4 beside ordinary ones, and a live price folded in
C18_Witness ==
    /\ pc = "done" /\ response.status = 200
    /\ folded /\ livePrice.v > 5
    /\ Len(response.body.data) >= 3
    /\ \E i \in DOMAIN response.body.data : response.body.data[i].price = 0
    /\ response.body.data[Len(response.body.data)].price = round(livePrice.v)

Min(S) == CHOOSE x \in S : \A y \in S : x <= y

mergeDone == pc \in {"latest", "liveTick", "respond", "done"}

\* the first day the primary series has a point on
firstDayKey == Min(dayKeysOf(realizedPriceRaw.v))

\* C19 as stated: once both gates are passed, lookupRP finds a value for
\* every kept point.
C19_NeverAbsent ==
    mergeDone =>
        \A i \in DOMAIN sampled :
            lookupRP(rpMap, rpKeys, sampled[i].x * secToMs).some

\* C19 as amended: once both gates are passed, lookupRP finds a value for a
\* kept point exactly when the primary series has a point on that point's
\* day or on an earlier one; the record then carries that value rounded, and
\* otherwise the fallback rp = 0 with all five bands 0.
C19_CoveredFromFirstDay ==
    mergeDone =>
        \A i \in DOMAIN sampled :
            LET ts    == sampled[i].x * secToMs
                found == lookupRP(rpMap, rpKeys, ts)
                days  == { d \in dayKeysOf(realizedPriceRaw.v) : d <= ts }
            IN  /\ found.some <=> firstDayKey <= ts
                /\ found.some =>
                      /\ found = mapGet(rpMap, Max(days))
                      /\ mergedData[i].rp = round(found.v)
                /\ ~found.some =>
                      /\ mergedData[i].rp = 0
                      /\ mergedData[i].rp_0_8 = 0 /\ mergedData[i].rp_3_2 = 0

\* a primary series that starts after 2018-01-01: the first record falls back
\* to rp = 0, a later one finds its value
C19_Witness ==
    /\ mergeDone /\ Len(chartData) >= 2 /\ strictlyAscendingX(sampled)
    /\ firstDayKey > sampled[1].x * secToMs
    /\ mergedData[1].rp = 0
    /\ mergedData[Len(mergedData)].rp > 0

\* C20: the record of a folded live tick carries, for rp and for each cohort
\* series that is available, the value lookupRP finds at now, and when that
\* lookup finds none the latest value of the same series (latestRP,
\* latestSTH, latestLTH).
C20_FallbackToLatest ==
    (pc \in {"respond", "done"} /\ folded) =>
        LET live == chartData[Len(chartData)]
        IN  /\ live.rp = round(orElse(lookupRP(rpMap, rpKeys, now), num(latestRP)))
            /\ (sthMap.some /\ sthKeys.some) =>
                  live.sth_rp =
                      roundOpt(IF lookupRP(sthMap.v, sthKeys.v, now).some
                               THEN lookupRP(sthMap.v, sthKeys.v, now)
                               ELSE latestNum(latestSTH))
            /\ (lthMap.some /\ lthKeys.some) =>
                  live.lth_rp =
                      roundOpt(IF lookupRP(lthMap.v, lthKeys.v, now).some
                               THEN lookupRP(lthMap.v, lthKeys.v, now)
                               ELSE latestNum(latestLTH))

\* what the cohort series (map, keys) holds for the instant ts
cohortFound(map, keys, ts) ==
    IF map.some /\ keys.some THEN lookupRP(map.v, keys.v, ts) ELSE Null

\* a cohort value as the claim has it emitted: rounded when there is one
emitted(found) == IF found.some THEN Some(round(found.v)) ELSE Null

\* C21: in every record of the merge step and in the record of a folded live
\* tick, sth_rp (lth_rp) is null exactly when the cohort series is not
\* available or its lookup at the record's instant finds nothing; a value
\* that is found, 0 included, is emitted rounded.
C21_CohortAbsentExactly ==
    /\ pc \in {"latest", "liveTick"} =>
          \A i \in DOMAIN chartData :
              /\ chartData[i].sth_rp
                    = emitted(cohortFound(sthMap, sthKeys, chartData[i].date))
              /\ chartData[i].lth_rp
                    = emitted(cohortFound(lthMap, lthKeys, chartData[i].date))
    /\ (pc \in {"respond", "done"} /\ folded) =>
          /\ chartData[Len(chartData)].sth_rp
                = emitted(cohortFound(sthMap, sthKeys, now))
          /\ chartData[Len(chartData)].lth_rp
                = emitted(cohortFound(lthMap, lthKeys, now))

\* the position of the last raw point that falls on day d
lastOnDay(raw, d) == Max({ i \in DOMAIN raw : dayOf(raw[i].ts) = d })

\* C22: the map built from a raw series has one entry for each UTC day a
\* point falls on, keyed by that day's midnight, holding the value of the
\* last point of the day in input order; the key sequence is strictly
\* ascending and holds exactly the keys of the map, each once; and a lookup
\* leaves the map and the key sequence as they are.
C22_DayMap ==
    /\ [](pc = "lookup" =>
            LET raw == realizedPriceRaw.v
            IN  /\ { rpMap[i].k : i \in DOMAIN rpMap } = dayKeysOf(raw)
                /\ \A i \in DOMAIN rpMap : rpMap[i].k % dayMs = 0
                /\ \A i, j \in DOMAIN rpMap : rpMap[i].k = rpMap[j].k => i = j
                /\ \A d \in dayKeysOf(raw) :
                      mapGet(rpMap, d) = Some(raw[lastOnDay(raw, d)].val)
                /\ \A i \in 1..(Len(rpKeys) - 1) : rpKeys[i] < rpKeys[i + 1]
                /\ { rpKeys[i] : i \in DOMAIN rpKeys } = dayKeysOf(raw)
                /\ Len(rpKeys) = Len(rpMap))
    /\ [][pc = "lookup" => (rpMap' = rpMap /\ rpKeys' = rpKeys)]_vars

\* four points on two days, the later day first, and a lookup made
C22_Witness ==
    /\ pc = "lookup" /\ probe.some
    /\ Len(realizedPriceRaw.v) = 4 /\ Len(rpMap) = 2
    /\ rpMap[1].k > rpMap[2].k
    /\ dayOf(realizedPriceRaw.v[1].ts) = dayOf(realizedPriceRaw.v[4].ts)
    /\ rpMap[1].v = realizedPriceRaw.v[4].val

\* C23: after the live-tick step the data has the length of the merged
\* sequence or one more; every record before the last merged position is the
\* merged record of that position, and so is the last merged one when a
\* record was appended; the response carries this data, and dataPoints is
\* its length.
C23_TailOnly ==
    pc \in {"respond", "done"} =>
        LET m == Len(mergedData)
        IN  /\ Len(chartData) \in {m, m + 1}
            /\ \A i \in 1..(m - 1) : chartData[i] = mergedData[i]
            /\ Len(chartData) = m + 1 => chartData[m] = mergedData[m]
            /\ m = 0 => chartData = << >>
            /\ (pc = "done" /\ response.status = 200) =>
                  /\ response.body.data = chartData
                  /\ response.body.dataPoints = Len(response.body.data)

\* a live record appended after three merged records
C23_Witness ==
    /\ pc = "done" /\ response.status = 200
    /\ Len(mergedData) = 3
    /\ response.body.dataPoints = 4
    /\ response.body.data[3] = mergedData[3]
    /\ response.body.data[4].date = now

\* the historical series has a point the window keeps
somePointKept ==
    \E j \in DOMAIN historicalPrices.v : inWindow(historicalPrices.v[j])

\* C24 as stated: every success response carries at least one record.
C24_AlwaysNonEmpty ==
    (pc = "done" /\ response.status = 200) => Len(response.body.data) > 0

\* C24 as amended: with both gates passed and nothing malformed GET succeeds
\* whether or not a historical point survives the window; the data of a
\* success response is non-empty exactly when one does; when none does the
\* data is empty, dataPoints is 0 and the live-tick step is skipped, the live
\* price showing in latestPrice alone.
C24_NonEmptyWhenKept ==
    pc = "done" =>
        /\ (primaryOk /\ historyOk /\ cohortOk(sthRPRaw) /\ cohortOk(lthRPRaw))
              => response.status = 200
        /\ response.status = 200 =>
              /\ Len(response.body.data) > 0 <=> somePointKept
              /\ ~somePointKept =>
                    /\ response.body.data = << >>
                    /\ response.body.dataPoints = 0
                    /\ now = 0
                    /\ response.body.latestPrice
                          = IF livePrice.some THEN round(livePrice.v) ELSE 0

\* a history of 100 points before 2018 and a live price: a success without
\* a record
C24_Witness ==
    /\ pc = "done" /\ response.status = 200
    /\ Len(historicalPrices.v) >= minPoints
    /\ ~somePointKept
    /\ truthy(livePrice)
    /\ response.body.data = << >>
    /\ response.body.latestPrice = round(livePrice.v)

====
